---- MODULE Spec2Model ----
(***************************************************************************)
(* Request evaluation pipeline of curiefense (curieproxy/rust/curiefense):  *)
(* analyze_init -> analyze_query -> analyze_finish (analyze.rs) and the     *)
(* bot-detector helpers they call (grasshopper.rs).                         *)
(*                                                                          *)
(* Option<T> is a sequence of length 0 (None) or 1 (Some(x)).  Strings the  *)
(* code inspects (the request path, the verification token) are sequences   *)
(* of chunks, so that starts_with and replace are computed.  rinfo, the     *)
(* masked log record of AnalyzeResult, is not part of the model.            *)
(***************************************************************************)
EXTENDS Integers, Sequences, FiniteSets, TLC

VARIABLES pc, mgh, p0, cfrules, p1, p2, result, calls, dyn

vars == <<pc, mgh, p0, cfrules, p1, p2, result, calls, dyn>>

None == <<>>

Some(x) == <<x>>

(***************************************************************************)
(* Bounds of the model.                                                     *)
(***************************************************************************)
\* most flow checks, and most limit checks, one request builds
MaxChecks == 1

\* longest verification token, in chunks, the detector returns
MaxTokenLen == 2

\* most calls of the detector engine followed in one run of the FFI backend
MaxDynCalls == 3

(***************************************************************************)
(* Strings: the request path and the magic prefixes.                        *)
(***************************************************************************)
starts_with(s, p) == Len(s) >= Len(p) /\ SubSeq(s, 1, Len(p)) = p

PrefixPassive == <<"/c3650cdf">>

PrefixPhase02 == <<"/7060ac19f50208cbb6b45328ef94140a612ee92387e015594234077b4d1e64f1">>

PrefixAppSig == <<"/74d8-ffc3-0f63-4b3c-c5c9-5699-6d5b-3a1">>

\* the prefix handle_bio_reports tests
PrefixBio == <<"/8d47-ffc3-0f63-4b3c-c5c9-5699-6d5b-3a1">>

\* the prefix analyze_init tests before it calls handle_bio_reports
PrefixBioInit == <<"/8d47-ffc3-0f63-4b3c-c5c9-5699-6d5b-3a1", "f">>

MagicPrefixes == {PrefixPassive, PrefixPhase02, PrefixAppSig, PrefixBio}

\* request paths: an ordinary one, one under each magic prefix, and for the
\* biometric prefix one whose next character is f and one whose is not
Uris ==
    { <<"/index">>,
      PrefixPassive \o <<"/x">>,
      PrefixPhase02 \o <<"/x">>,
      PrefixAppSig \o <<"/x">>,
      PrefixBio \o <<"/x">>,
      PrefixBio \o <<"f", "/x">> }

(***************************************************************************)
(* Bot detector: the Grasshopper trait and its result types.                *)
(***************************************************************************)
PrecisionLevel == {"Active", "Passive", "Interactive", "MobileSdk", "Emulator", "Invalid"}

is_human(level) == level # "Invalid" /\ level # "Emulator"

GHMode == {"Passive", "Active", "Interactive"}

Ok(v) == [ok |-> TRUE, val |-> v]

Err(e) == [ok |-> FALSE, val |-> e]

\* a GHResponse is [str_response, headers, status_code]; headers are a set
\* of <<name, value>> pairs
GHResponses ==
    { [str_response |-> "chal", headers |-> {<<"X", "Y">>}, status_code |-> 200],
      [str_response |-> "resp", headers |-> {}, status_code |-> 403] }

GHErrors == {<<"not implemented">>}

TokenChunks == {"a", "="}

Tokens == UNION {[1..n -> TokenChunks] : n \in 0..MaxTokenLen}

GHResponseResults == {Ok(r) : r \in GHResponses} \cup {Err(e) : e \in GHErrors}

VerifyResults == {Ok(t) : t \in Tokens} \cup {Err(e) : e \in GHErrors}

\* a detector that fails every call (DummyGrasshopper)
DummyOracle ==
    [ init_challenge |-> Err(<<"not implemented">>),
      verify_challenge |-> Err(<<"not implemented">>),
      should_provide_app_sig |-> Err(<<"not implemented">>),
      handle_bio_report |-> Err(<<"not implemented">>) ]

\* what one detector answers to each of the four calls the pipeline makes.
\* One request makes at most one of the four calls, so the detectors
\* considered differ from the failing one in one answer.
GHOracles ==
    {[DummyOracle EXCEPT !.init_challenge = r] : r \in GHResponseResults}
    \cup {[DummyOracle EXCEPT !.verify_challenge = r] : r \in VerifyResults}
    \cup {[DummyOracle EXCEPT !.should_provide_app_sig = r] : r \in GHResponseResults}
    \cup {[DummyOracle EXCEPT !.handle_bio_report = r] : r \in GHResponseResults}

(***************************************************************************)
(* Decisions, actions and block reasons (crate::interface).                 *)
(***************************************************************************)
ActionType == {"Monitor", "RequestHeader", "Challenge", "Block"}

priority(atype) ==
    CASE atype = "Monitor" -> 1
      [] atype = "RequestHeader" -> 2
      [] atype = "Challenge" -> 3
      [] atype = "Block" -> 4

MkAction(atype, block_mode, status, headers, content, extra_tags) ==
    [ atype |-> atype, block_mode |-> block_mode, headers |-> headers,
      status |-> status, content |-> content, extra_tags |-> extra_tags ]

Decision_pass(reasons) == [maction |-> None, reasons |-> reasons]

Decision_action(action, reasons) == [maction |-> Some(action), reasons |-> reasons]

is_final(d) ==
    /\ d.maction # None
    /\ \/ d.maction[1].atype = "Block"
       \/ d.maction[1].atype = "Challenge" /\ d.maction[1].block_mode

merge_decisions(d1, d2) ==
    LET reasons == d1.reasons \o d2.reasons
    IN  CASE d1.maction = None -> [maction |-> d2.maction, reasons |-> reasons]
          [] d1.maction # None /\ d2.maction = None ->
               [maction |-> d1.maction, reasons |-> reasons]
          [] OTHER ->
               LET a1 == d1.maction[1]
                   a2 == d2.maction[1]
                   win == IF priority(a2.atype) >= priority(a1.atype) THEN a2 ELSE a1
                   bm == IF a1.atype = "Block" /\ a2.atype = "Block"
                         THEN a1.block_mode \/ a2.block_mode
                         ELSE win.block_mode
               IN  [maction |-> Some([win EXCEPT !.block_mode = bm]), reasons |-> reasons]

Location == {"Request", "Headers", "Cookies", "Body", "Path", "Attrs"}

BDecision == {"Skipped", "Monitor", "Inactive", "Blocking"}

inactive(severity) == IF severity = "Blocking" THEN "Inactive" ELSE severity

MkReason(initiator, detail, severity, location) ==
    [ initiator |-> initiator, detail |-> detail, decision |-> severity,
      location |-> location ]

BlockReason_body_malformed(rr) == MkReason("body-malformed", rr, "Blocking", {"Body"})

BlockReason_phase01_unknown(msg) == MkReason("phase01-unknown", msg, "Blocking", {"Request"})

AclStage == {"Allow", "Deny", "Bypass", "EnforceDeny", "HumanOnly", "BotOnly"}

BlockReason_acl(tags, stage) ==
    MkReason("acl", <<stage>>,
             IF stage \in {"Allow", "Bypass"} THEN "Skipped" ELSE "Blocking",
             {"Request"})

(***************************************************************************)
(* Tags: each tag with the set of locations it was seen at.  A tag is a     *)
(* tuple: <<name>>, or <<key, value>> when qualified.                       *)
(***************************************************************************)
insert_locs(tags, t, locs) ==
    IF t \in DOMAIN tags
    THEN [tags EXCEPT ![t] = @ \cup locs]
    ELSE [x \in DOMAIN tags \cup {t} |-> IF x = t THEN locs ELSE tags[x]]

insert(tags, t, loc) == insert_locs(tags, <<t>>, {loc})

insert_qualified(tags, k, v, loc) == insert_locs(tags, <<k, v>>, {loc})

RECURSIVE insert_all(_, _, _)
insert_all(tags, ts, locs) ==
    IF ts = {} THEN tags
    ELSE LET t == CHOOSE x \in ts : TRUE
         IN  insert_all(insert_locs(tags, <<t>>, locs), ts \ {t}, locs)

(***************************************************************************)
(* Stats accumulator (crate::interface::stats): the stage it has reached,   *)
(* the number of ACL matches, and the content-filter marker.                *)
(***************************************************************************)
StatsMapped == [stage |-> "Mapped", acl |-> None, cf |-> None]

stats_build(stats, stage) == [processing_stage |-> stage, acl |-> stats.acl, cf |-> stats.cf]

mapped_stage_build(stats) == stats_build(stats, "Mapped")

limit_stage_build(stats) == stats_build(stats, "Limit")

acl_stage_build(stats) == stats_build(stats, "Acl")

cf_stage_build(stats) == stats_build(stats, "ContentFilter")

stats_acl(stats, n) == [stats EXCEPT !.stage = "Acl", !.acl = Some(n)]

no_content_filter(stats) == [stats EXCEPT !.stage = "ContentFilter", !.cf = Some("no_content_filter")]

(***************************************************************************)
(* Inputs: security policies, requests, phase-0 records.                    *)
(***************************************************************************)
\* actions a policy may configure: observe, enforce, enforce in monitor mode
PolicyAction(atype, block_mode, content) ==
    MkAction(atype, block_mode, IF atype = "Block" THEN 403 ELSE 200, None, content,
             Some({content}))

ContentFilterActions ==
    { PolicyAction("Monitor", FALSE, "cf-action"), PolicyAction("Block", TRUE, "cf-action") }

AclActions == { PolicyAction("Block", TRUE, "acl-action") }

LimitActions ==
    { PolicyAction("Monitor", FALSE, "limit-action"), PolicyAction("Block", TRUE, "limit-action") }

GlobalFilterActions ==
    { PolicyAction("Monitor", FALSE, "gf-action"), PolicyAction("Block", TRUE, "gf-action") }

SecurityPolicies ==
    { [ policy_name |-> "pol", entry_name |-> "entry",
        acl_profile |-> [id |-> "acl1", name |-> "aclprof", tags |-> {"acl-extra"}, action |-> aa],
        content_filter_profile |->
            [id |-> "cf1", name |-> "cfprof", tags |-> {"cf-extra"}, action |-> ca,
             content_type |-> ct],
        acl_active |-> aact, content_filter_active |-> cact ] :
      aa \in AclActions, ca \in ContentFilterActions,
      ct \in {{}, {"application/json"}}, aact \in BOOLEAN, cact \in BOOLEAN }

\* body_decoding: None is Decoded, Some(rr) is DecodingFailed(rr)
BodyDecodingResults == {None, Some("bad utf-8")}

RequestInfos ==
    [ uri : Uris, body_decoding : BodyDecodingResults, secpolicy : SecurityPolicies ]

\* a SimpleDecision is None (Pass) or Some([action, reasons])
SimpleAction(action, reasons) == Some([action |-> action, reasons |-> reasons])

GlobalFilterDecisions ==
    {None} \cup
    { SimpleAction(a, <<MkReason("global-filter", <<"gf-rule">>, "Monitor", {"Request"})>>) :
        a \in GlobalFilterActions }

PrecisionInputs == {"Active", "Invalid"}

Itags == [t \in {<<"ip", "1-2-3-4">>} |-> {"Request"}]

APhase0s ==
    [ flows : {"flowmap"}, globalfilter_dec : GlobalFilterDecisions,
      precision_level : PrecisionInputs, itags : {Itags}, reqinfo : RequestInfos,
      stats : {StatsMapped} ]

\* The requests checked: every path, body and content-type list under the
\* enforcing policy, and every policy for the ordinary request with a decoded
\* body; the precision level varies where the pipeline hands it on.
EnforcingPolicy(secpolicy) ==
    /\ secpolicy.acl_active
    /\ secpolicy.content_filter_active
    /\ secpolicy.content_filter_profile.action.atype = "Block"

OrdinaryRequest(reqinfo) ==
    /\ reqinfo.uri = <<"/index">>
    /\ reqinfo.body_decoding = None
    /\ reqinfo.secpolicy.content_filter_profile.content_type # {}

InputCases ==
    { p \in APhase0s :
        /\ EnforcingPolicy(p.reqinfo.secpolicy) \/ OrdinaryRequest(p.reqinfo)
        /\ p.precision_level = "Active" \/ starts_with(p.reqinfo.uri, PrefixBioInit) }

(***************************************************************************)
(* grasshopper.rs: decisions built from the detector's answers.  Each       *)
(* returns the decision with the log of the detector calls it made.         *)
(***************************************************************************)
\* one call: what was called, the argument or answer worth keeping (an Option)
\* and whether the call succeeded
Call(op, arg, ok) == [op |-> op, arg |-> arg, ok |-> ok]

\* faulty variant: the fail-safe decision keeps nothing of the error
gh_fail_decision_m(reason) ==
    Decision_action(MkAction("Block", TRUE, 500, None, "internal_error", None), <<>>)

gh_fail_decision(reason) ==
    Decision_action(
        MkAction("Block", TRUE, 500, None, "internal_error", None),
        <<BlockReason_phase01_unknown(reason)>>)

\* faulty variant: the challenge is returned with the detector's status code
challenge_phase01_m(gh, rinfo, reasons, mode) ==
    LET r == gh.init_challenge
        log == <<Call("init_challenge", Some(mode), r.ok)>>
    IN  IF ~r.ok
        THEN [decision |-> gh_fail_decision(r.val), calls |-> log]
        ELSE [decision |->
                Decision_action(
                    MkAction("Block", TRUE, r.val.status_code, Some(r.val.headers),
                             r.val.str_response, Some({"challenge_phase01"})),
                    reasons),
              calls |-> log]

challenge_phase01(gh, rinfo, reasons, mode) ==
    LET r == gh.init_challenge
        log == <<Call("init_challenge", Some(mode), r.ok)>>
    IN  IF ~r.ok
        THEN [decision |-> gh_fail_decision(r.val), calls |-> log]
        ELSE [decision |->
                Decision_action(
                    MkAction("Block", TRUE, 247, Some(r.val.headers), r.val.str_response,
                             Some({"challenge_phase01"})),
                    reasons),
              calls |-> log]

\* faulty variant: the token is copied as it is
replace_eq_m(s) == s

\* str::replace('=', "-")
replace_eq(s) == [i \in 1..Len(s) |-> IF s[i] = "=" THEN "-" ELSE s[i]]

\* faulty variant: a failed verification is answered with the fail-safe decision
challenge_phase02_m(gh, reqinfo) ==
    IF ~starts_with(reqinfo.uri, PrefixPhase02)
    THEN [decision |-> None, calls |-> <<>>]
    ELSE [ decision |-> Some(gh_fail_decision(<<"verification">>)),
           calls |-> <<Call("verify_challenge", None, gh.verify_challenge.ok)>> ]

challenge_phase02(gh, reqinfo) ==
    IF ~starts_with(reqinfo.uri, PrefixPhase02)
    THEN [decision |-> None, calls |-> <<>>]
    ELSE LET r == gh.verify_challenge
             log == <<Call("verify_challenge", IF r.ok THEN Some(r.val) ELSE None, r.ok)>>
         IN  IF ~r.ok
             THEN [decision |-> None, calls |-> log]
             ELSE LET cookie == <<"rbzid=">> \o replace_eq(r.val) \o <<"; Path=/; HttpOnly">>
                      nheaders == {<<"Set-Cookie", cookie>>}
                  IN  [decision |->
                          Some(Decision_action(
                              MkAction("Block", TRUE, 248, Some(nheaders), "{}",
                                       Some({"challenge_phase02"})),
                              <<>>)),
                       calls |-> log]

check_app_sig(gh, reqinfo) ==
    IF ~starts_with(reqinfo.uri, PrefixAppSig)
    THEN [decision |-> None, calls |-> <<>>]
    ELSE LET r == gh.should_provide_app_sig
             log == <<Call("should_provide_app_sig", None, r.ok)>>
         IN  IF ~r.ok
             THEN [decision |-> None, calls |-> log]
             ELSE [decision |->
                      Some(Decision_action(
                          MkAction("Block", TRUE, r.val.status_code, Some(r.val.headers), "{}",
                                   Some({"check_app_sig"})),
                          <<>>)),
                   calls |-> log]

handle_bio_reports(gh, reqinfo, precision_level) ==
    IF ~starts_with(reqinfo.uri, PrefixBio)
    THEN [decision |-> None, calls |-> <<>>]
    ELSE LET r == gh.handle_bio_report
             log == <<Call("handle_bio_report", Some(precision_level), r.ok)>>
         IN  IF ~r.ok
             THEN [decision |-> None, calls |-> log]
             ELSE [decision |->
                      Some(Decision_action(
                          MkAction("Block", TRUE, r.val.status_code, Some(r.val.headers),
                                   r.val.str_response, Some({"handle_bio_reports"})),
                          <<>>)),
                   calls |-> log]

(***************************************************************************)
(* SimpleAction::to_decision: the configured action with the reasons handed *)
(* to it; the action's extra tags are added to the tag set.                 *)
(***************************************************************************)
to_decision(action, precision_level, mgh_, reqinfo, tags, reasons) ==
    [ decision |-> Decision_action(action, reasons),
      tags |-> IF action.extra_tags = None THEN tags
               ELSE insert_all(tags, action.extra_tags[1], {"Request"}) ]

(***************************************************************************)
(* Flow and limit checks (crate::flow, crate::limit): what flow_info and    *)
(* limit_info build for one request.  A limit check names the action of     *)
(* its rule.                                                                *)
(***************************************************************************)
FlowCheck(i) == [kind |-> "flow", id |-> i]

LimitCheck(i, action) == [kind |-> "limit", id |-> i, action |-> action]

FlowCheckLists == {[i \in 1..n |-> FlowCheck(i)] : n \in 0..MaxChecks}

\* the limit rules of one policy share their action
LimitCheckLists ==
    UNION { {[i \in 1..n |-> LimitCheck(i, a)] : a \in LimitActions} : n \in 0..MaxChecks }

\* what the collaborators of analyze_init answer for one request
InitEnvs == [gh : GHOracles, flow_info : FlowCheckLists, limit_info : LimitCheckLists]

(***************************************************************************)
(* analyze_init (analyze.rs).  The result is InitResult::Res (res is Some,  *)
(* p1 is None) or InitResult::Phase1 (p1 is Some), with the log of calls.   *)
(***************************************************************************)
\* faulty variant: the result of analyze_init is built at the ContentFilter stage
InitRes_m(decision, tags, stats, log) ==
    [ res |-> Some([decision |-> decision, tags |-> tags, stats |-> cf_stage_build(stats)]),
      p1 |-> None, calls |-> log ]

InitRes(decision, tags, stats, log) ==
    [ res |-> Some([decision |-> decision, tags |-> tags, stats |-> mapped_stage_build(stats)]),
      p1 |-> None, calls |-> log ]

InitPhase1(flow_checks, limit_checks, info, log) ==
    [ res |-> None,
      p1 |-> Some([flows |-> flow_checks, limits |-> limit_checks, info |-> info]),
      calls |-> log ]

\* faulty variant: the tags start empty, not from itags
init_tags_m(p0_) ==
    LET securitypolicy == p0_.reqinfo.secpolicy
        t1 == insert_qualified(<<>>, "securitypolicy", securitypolicy.policy_name, "Request")
        t2 == insert_qualified(t1, "securitypolicy-entry", securitypolicy.entry_name, "Request")
        t3 == insert_qualified(t2, "aclid", securitypolicy.acl_profile.id, "Request")
        t4 == insert_qualified(t3, "aclname", securitypolicy.acl_profile.name, "Request")
        t5 == insert_qualified(t4, "contentfilterid", securitypolicy.content_filter_profile.id,
                               "Request")
    IN  insert_qualified(t5, "contentfiltername", securitypolicy.content_filter_profile.name,
                         "Request")

init_tags(p0_) ==
    LET securitypolicy == p0_.reqinfo.secpolicy
        t1 == insert_qualified(p0_.itags, "securitypolicy", securitypolicy.policy_name, "Request")
        t2 == insert_qualified(t1, "securitypolicy-entry", securitypolicy.entry_name, "Request")
        t3 == insert_qualified(t2, "aclid", securitypolicy.acl_profile.id, "Request")
        t4 == insert_qualified(t3, "aclname", securitypolicy.acl_profile.name, "Request")
        t5 == insert_qualified(t4, "contentfilterid", securitypolicy.content_filter_profile.id,
                               "Request")
    IN  insert_qualified(t5, "contentfiltername", securitypolicy.content_filter_profile.name,
                         "Request")

\* faulty variant: the passive test made only for a decoded body
passive_challenge_applies_m(mgh_, reqinfo) ==
    starts_with(reqinfo.uri, PrefixPassive) /\ mgh_ # None /\ reqinfo.body_decoding = None

passive_challenge_applies(mgh_, reqinfo) ==
    starts_with(reqinfo.uri, PrefixPassive) /\ mgh_ # None

\* faulty variant: the accepted content-type list is not consulted
body_malformed_applies_m(reqinfo) == reqinfo.body_decoding # None

body_malformed_applies(reqinfo) ==
    /\ reqinfo.secpolicy.content_filter_profile.content_type # {}
    /\ reqinfo.body_decoding # None

init_body_malformed(mgh_, p0_, tags) ==
    LET reqinfo == p0_.reqinfo
        profile == reqinfo.secpolicy.content_filter_profile
        reason == BlockReason_body_malformed(reqinfo.body_decoding[1])
        d == to_decision(profile.action, p0_.precision_level, mgh_, reqinfo, tags, <<reason>>)
    IN  InitRes(d.decision, insert_all(d.tags, profile.tags, {"Body"}), p0_.stats,
                <<Call("to_decision", Some(profile.action.content), TRUE)>>)

\* faulty variant: the detector is called whether or not the handle is there
init_magic_m(mgh_, p0_, gh) ==
    LET reqinfo == p0_.reqinfo
        none == [decision |-> None, calls |-> <<>>]
        r2 == IF starts_with(reqinfo.uri, PrefixPhase02)
              THEN challenge_phase02(gh, reqinfo) ELSE none
        r3 == IF starts_with(reqinfo.uri, PrefixAppSig)
              THEN check_app_sig(gh, reqinfo) ELSE none
        r4 == IF starts_with(reqinfo.uri, PrefixBioInit)
              THEN handle_bio_reports(gh, reqinfo, p0_.precision_level) ELSE none
    IN  IF r2.decision # None THEN r2
        ELSE IF r3.decision # None
             THEN [decision |-> r3.decision, calls |-> r2.calls \o r3.calls]
             ELSE [decision |-> r4.decision, calls |-> r2.calls \o r3.calls \o r4.calls]

\* the three magic URIs tested after the body: the first that yields a
\* decision, with the detector calls made on the way
init_magic(mgh_, p0_, gh) ==
    LET reqinfo == p0_.reqinfo
        none == [decision |-> None, calls |-> <<>>]
        r2 == IF starts_with(reqinfo.uri, PrefixPhase02) /\ mgh_ # None
              THEN challenge_phase02(gh, reqinfo) ELSE none
        r3 == IF starts_with(reqinfo.uri, PrefixAppSig) /\ mgh_ # None
              THEN check_app_sig(gh, reqinfo) ELSE none
        r4 == IF starts_with(reqinfo.uri, PrefixBioInit) /\ mgh_ # None
              THEN handle_bio_reports(gh, reqinfo, p0_.precision_level) ELSE none
    IN  IF r2.decision # None THEN r2
        ELSE IF r3.decision # None
             THEN [decision |-> r3.decision, calls |-> r2.calls \o r3.calls]
             ELSE [decision |-> r4.decision, calls |-> r2.calls \o r3.calls \o r4.calls]

\* faulty variant: any global-filter action returns, final or not
gf_short_circuits_m(gf, decision) == gf # None

\* the global-filter decision ends the pipeline
gf_short_circuits(gf, decision) == gf # None /\ is_final(decision)

init_globalfilter(mgh_, p0_, tags, log, env) ==
    LET reqinfo == p0_.reqinfo
        gf == p0_.globalfilter_dec
        d == IF gf # None
             THEN to_decision(gf[1].action, p0_.precision_level, mgh_, reqinfo, tags,
                              gf[1].reasons)
             ELSE [decision |-> Decision_pass(<<>>), tags |-> tags]
        log1 == IF gf # None THEN log \o <<Call("to_decision", Some(gf[1].action.content), TRUE)>>
                ELSE log
    IN  IF gf_short_circuits(gf, d.decision)
        THEN InitRes(d.decision, d.tags, p0_.stats, log1)
        ELSE InitPhase1(env.flow_info, env.limit_info,
                        [ precision_level |-> p0_.precision_level, p0_decision |-> d.decision,
                          reqinfo |-> reqinfo, stats |-> p0_.stats, tags |-> d.tags ],
                        log1 \o <<Call("limit_info", None, TRUE), Call("flow_info", None, TRUE)>>)

\* faulty variant: the magic URIs of phase 02, app signature and biometric
\* report are tested before the body
analyze_init_m(mgh_, p0_, env) ==
    LET reqinfo == p0_.reqinfo
        tags == init_tags(p0_)
        m == init_magic(mgh_, p0_, env.gh)
    IN  IF passive_challenge_applies(mgh_, reqinfo)
        THEN LET c == challenge_phase01(env.gh, reqinfo, <<>>, "Passive")
             IN  InitRes(c.decision, tags, p0_.stats, c.calls)
        ELSE IF m.decision # None
        THEN InitRes(m.decision[1], tags, p0_.stats, m.calls)
        ELSE IF body_malformed_applies(reqinfo)
        THEN init_body_malformed(mgh_, p0_, tags)
        ELSE init_globalfilter(mgh_, p0_, tags, m.calls, env)

analyze_init(mgh_, p0_, env) ==
    LET reqinfo == p0_.reqinfo
        tags == init_tags(p0_)
    IN  IF passive_challenge_applies(mgh_, reqinfo)
        THEN LET c == challenge_phase01(env.gh, reqinfo, <<>>, "Passive")
             IN  InitRes(c.decision, tags, p0_.stats, c.calls)
        ELSE IF body_malformed_applies(reqinfo)
        THEN init_body_malformed(mgh_, p0_, tags)
        ELSE LET m == init_magic(mgh_, p0_, env.gh)
             IN  IF m.decision # None
                 THEN InitRes(m.decision[1], tags, p0_.stats, m.calls)
                 ELSE init_globalfilter(mgh_, p0_, tags, m.calls, env)

(***************************************************************************)
(* analyze_query (analyze.rs).  One counter query per check; the store      *)
(* answers each with an Option<i64>.  The pipeline is the list of the       *)
(* checks in the order their queries were appended.                         *)
(***************************************************************************)
ResultValues == {None, Some(11)}

\* a reply of the store that does not decode as Option<i64>
Undecodable == <<0, 0>>

\* what the store may reply to one query
Replies == ResultValues \cup {Undecodable}

flow_build_query(pipe, flows) == pipe \o flows

limit_build_query(pipe, limits) == pipe \o limits

unwrap_or_0(v) == IF v = None THEN 0 ELSE v[1]

\* Both resolvers consume the head of the result stream, one result per
\* check, and answer a Result: err tells that the resolution failed.
flow_resolve_query(lst, flows, err) ==
    [ ok |-> ~err,
      out |-> [i \in 1..Len(flows) |->
                  [ id |-> flows[i].id,
                    tp |-> IF unwrap_or_0(lst[i]) = 0 THEN "NotInSequence" ELSE "LastStep" ]],
      rest |-> SubSeq(lst, Len(flows) + 1, Len(lst)) ]

limit_resolve_query(lst, limits, err) ==
    [ ok |-> ~err,
      out |-> [i \in 1..Len(limits) |->
                  [limit |-> limits[i], curcount |-> unwrap_or_0(lst[i])]],
      rest |-> SubSeq(lst, Len(limits) + 1, Len(lst)) ]

\* faulty variant: the results gathered before the error are kept
eat_errors_m(rs) == rs.out

\* eat_errors: the value of an Ok, the default (the empty list) for an Err
eat_errors(rs) == IF rs.ok THEN rs.out ELSE <<>>

\* What the store answers for one request with nf flow checks and nl limit
\* checks: whether connecting works, whether the pipeline is transported,
\* the reply to each query, and whether each resolution fails.  An answer
\* that is never asked for is held at one value.
QueryEnvs(nf, nl) ==
    { e \in [ conn_ok : BOOLEAN, exec_ok : BOOLEAN, results : [1..(nf + nl) -> Replies],
              flow_err : BOOLEAN, limit_err : BOOLEAN ] :
        LET decoded == \A k \in 1..(nf + nl) : e.results[k] # Undecodable
            answered == e.conn_ok /\ e.exec_ok /\ decoded
        IN  /\ ~e.conn_ok => e.exec_ok
            /\ ~(e.conn_ok /\ e.exec_ok) => \A k \in 1..(nf + nl) : e.results[k] = None
            /\ ~decoded => \A k \in 1..(nf + nl) : e.results[k] # None
            /\ e.flow_err => answered /\ nf > 0 /\ \A k \in 1..nf : e.results[k] = None
            /\ e.limit_err =>
                  answered /\ nl > 0 /\ \A k \in (nf + 1)..(nf + nl) : e.results[k] = None }

\* faulty variant: the limit queries are appended before the flow queries
build_pipe_m(flows, limits) == flow_build_query(limit_build_query(<<>>, limits), flows)

\* the pipeline: the flow queries, then the limit queries
build_pipe(flows, limits) == limit_build_query(flow_build_query(<<>>, flows), limits)

\* faulty variant: a reply that does not decode is taken as it is
query_async_ok_m(env) == env.exec_ok

\* pipe.query_async answers Ok: the pipeline was transported and the replies
\* decode as Vec<Option<i64>>, which one reply that does not decode as
\* Option<i64> prevents
query_async_ok(env) ==
    /\ env.exec_ok
    /\ \A k \in DOMAIN env.results : env.results[k] # Undecodable

\* faulty variant: a failed execution is not noticed
exec_failed_m(env) == FALSE

\* executing the pipeline failed
exec_failed(env) == ~query_async_ok(env)

\* faulty variant: the store is contacted even with no check to query
nothing_to_query_m(p1_) == FALSE

\* there is no flow check and no limit check
nothing_to_query(p1_) == p1_.flows = <<>> /\ p1_.limits = <<>>

\* The store answers the queries of the pipeline in order: results[k] is the
\* answer to pipe[k].  The call of query_async is logged with both when the
\* store replied.
analyze_query(p1_, env) ==
    LET info == p1_.info
        empty(log) == [p2 |-> [flows |-> <<>>, limits |-> <<>>, info |-> info], calls |-> log]
        conn == Call("redis_async_conn", None, env.conn_ok)
        pipe == build_pipe(p1_.flows, p1_.limits)
        exec == Call("query_async",
                     IF env.exec_ok THEN Some([pipe |-> pipe, res |-> env.results]) ELSE None,
                     query_async_ok(env))
    IN  IF nothing_to_query(p1_) THEN empty(<<>>)
        ELSE IF ~env.conn_ok THEN empty(<<conn>>)
        ELSE IF exec_failed(env) THEN empty(<<conn, exec>>)
        ELSE LET lst == env.results
                 fr == flow_resolve_query(lst, p1_.flows, env.flow_err)
                 lr == limit_resolve_query(fr.rest, p1_.limits, env.limit_err)
             IN  [ p2 |-> [ flows |-> eat_errors(fr), limits |-> eat_errors(lr),
                            info |-> info ],
                   calls |-> << conn, exec, Call("flow_resolve_query", None, fr.ok),
                                Call("limit_resolve_query", None, lr.ok) >> ]

(***************************************************************************)
(* Collaborators of analyze_finish: flow and limit processing, the ACL      *)
(* check and the content-filter check.                                      *)
(***************************************************************************)
flow_process(stats, flows, tags) ==
    LET last == {flows[i].id : i \in {j \in 1..Len(flows) : flows[j].tp = "LastStep"}}
    IN  [ stats |-> [stats EXCEPT !.stage = "Flow"],
          tags |-> IF last = {} THEN tags ELSE insert(tags, "flow-last-step", "Request") ]

LimitThreshold == 10

\* the first result over the threshold yields its rule's action
limit_process(stats, limits, tags) ==
    LET over == {i \in 1..Len(limits) : limits[i].curcount > LimitThreshold}
        first == CHOOSE i \in over : \A j \in over : i <= j
    IN  [ check |-> IF over = {} THEN None
                    ELSE SimpleAction(limits[first].limit.action,
                                      <<MkReason("limit", <<"limit-rule">>, "Blocking",
                                                 {"Request"})>>),
          stats |-> [stats EXCEPT !.stage = "Limit"],
          tags |-> IF over = {} THEN tags ELSE insert(tags, "limit-hit", "Request") ]

\* the outcome of check_acl followed by AclResult::decision: None, or the
\* stage matched and whether it asks for a challenge
AclStageInputs == {"Allow", "Deny", "Bypass"}

AclDecisions ==
    {None} \cup {Some([stage |-> st, tags |-> {"acl-tag"}, challenge |-> ch]) :
                    st \in AclStageInputs, ch \in BOOLEAN}

\* the outcome of content_filter_check: None is Ok(()), Some(b) is Err(b)
CfResults ==
    {None} \cup
    { Some([ blocking |-> b,
             reasons |-> <<MkReason("content-filter", <<"cf-rule">>,
                                    IF b THEN "Blocking" ELSE "Monitor", {"Body"})>> ]) :
        b \in BOOLEAN }

content_filter_check(stats, tags, reqinfo, profile, mrls, cf_result) ==
    [ result |-> cf_result,
      stats |-> [stats EXCEPT !.stage = "ContentFilter", !.cf = Some("checked")],
      tags |-> IF cf_result = None THEN tags ELSE insert(tags, "cf-rule", "Body") ]

CfRulesArgs ==
    { [kind |-> "Global", rules |-> None], [kind |-> "Get", rules |-> None],
      [kind |-> "Get", rules |-> Some("rules")] }

\* What the collaborators of analyze_finish answer for one request, with the
\* rules argument it is called with.  An answer that is never asked for is
\* held at one value: the detector's unless the ACL asks for a challenge,
\* the content filter's when it does, the lock's unless the rules are Global.
FinishEnvs ==
    { e \in [ init_challenge : {Ok(CHOOSE x \in GHResponses : x.status_code = 200)}
                                 \cup {Err(e) : e \in GHErrors},
              acl_decision : AclDecisions, cf_result : CfResults, hsdb_read_ok : BOOLEAN,
              cfrules : CfRulesArgs ] :
        LET challenge == e.acl_decision # None /\ e.acl_decision[1].challenge
        IN  /\ ~challenge => e.init_challenge.ok
            /\ challenge => e.cf_result = None /\ e.hsdb_read_ok /\ e.cfrules.kind = "Global"
            /\ e.cfrules.kind # "Global" => e.hsdb_read_ok
            /\ ~e.hsdb_read_ok => e.cf_result = None }

(***************************************************************************)
(* analyze_finish (analyze.rs): limit stage, ACL stage, content filter.     *)
(***************************************************************************)
FinishRes(decision, tags, stats, log) ==
    [decision |-> decision, tags |-> tags, stats |-> stats, calls |-> log]

reason_locations(reasons) == UNION {reasons[i].location : i \in 1..Len(reasons)}

\* the content-filter reasons as they enter the decision
cf_reasons(secpol, reasons) ==
    [ i \in 1..Len(reasons) |->
        IF ~secpol.content_filter_active
        THEN [reasons[i] EXCEPT !.decision = inactive(@)]
        ELSE reasons[i] ]

\* faulty variant: block_mode is left as the profile's action has it
cf_block_mode_m(secpol, block_mode) == block_mode

\* block_mode of the content-filter action
cf_block_mode(secpol, block_mode) == block_mode /\ secpol.content_filter_active

\* faulty variant: a failed read lock is not noticed
hsdb_read_failed_m(cfrules_, env) == FALSE

\* CfRulesArg::Global and HSDB.read() answers Err
hsdb_read_failed(cfrules_, env) == cfrules_.kind = "Global" /\ ~env.hsdb_read_ok

\* faulty variant: the read guard outlives the match arm
hsdb_read_m(cfrules_, env, inner) ==
    IF cfrules_.kind # "Global" THEN inner
    ELSE <<Call("HSDB.read", None, env.hsdb_read_ok)>> \o inner

\* The calls of the match on cfrules: with Global the read lock is asked
\* for, the guard rd lives for the calls of the Ok arm and is dropped at the
\* end of the arm; a failed read holds no guard.
hsdb_read(cfrules_, env, inner) ==
    IF cfrules_.kind # "Global" THEN inner
    ELSE <<Call("HSDB.read", None, env.hsdb_read_ok)>> \o inner
         \o (IF env.hsdb_read_ok THEN <<Call("drop(rd)", None, TRUE)>> ELSE <<>>)

finish_cf(mgh_, cfrules_, info, cumulated, tags, stats, log, env) ==
    LET reqinfo == info.reqinfo
        secpol == reqinfo.secpolicy
        profile == secpol.content_filter_profile
        locked == hsdb_read_failed(cfrules_, env)
        mrls == IF cfrules_.kind = "Global" THEN Some("rules") ELSE cfrules_.rules
        cf == IF locked
              THEN [result |-> None, stats |-> no_content_filter(stats), tags |-> tags]
              ELSE content_filter_check(stats, tags, reqinfo, profile, mrls, env.cf_result)
        log1 == log
                 \o hsdb_read(cfrules_, env,
                              IF locked THEN <<>>
                              ELSE <<Call("content_filter_check", env.cf_result, TRUE)>>)
        cfblock == cf.result[1]
        tags1 == IF cf.result # None /\ profile.tags # {}
                 THEN insert_all(cf.tags, profile.tags, reason_locations(cfblock.reasons))
                 ELSE cf.tags
        br == cf_reasons(secpol, cfblock.reasons)
        td == to_decision(profile.action, info.precision_level, mgh_, reqinfo, tags1, br)
        dec == IF td.decision.maction # None
               THEN [td.decision EXCEPT !.maction[1].block_mode = cf_block_mode(secpol, @)]
               ELSE td.decision
        content_filter_decision ==
            IF cf.result = None THEN Decision_pass(<<>>)
            ELSE IF cfblock.blocking THEN dec
            ELSE Decision_pass(br)
        tags2 == IF cf.result # None /\ cfblock.blocking THEN td.tags ELSE tags1
        log2 == IF cf.result # None /\ cfblock.blocking
                THEN log1 \o <<Call("to_decision", Some(profile.action.content), TRUE)>> ELSE log1
    IN  FinishRes(merge_decisions(cumulated, content_filter_decision), tags2,
                  cf_stage_build(cf.stats), log2)

\* faulty variant: the reason is not demoted when the ACL is inactive
acl_reason_m(secpol, decision) == BlockReason_acl(decision.tags, decision.stage)

\* the ACL block reason as it enters the decision
acl_reason(secpol, decision) ==
    LET br == BlockReason_acl(decision.tags, decision.stage)
    IN  IF ~secpol.acl_active THEN [br EXCEPT !.decision = inactive(@)] ELSE br

\* faulty variant: a bypass returns whether or not the ACL is active
acl_bypass_returns_m(secpol, decision) == decision.stage = "Bypass"

acl_bypass_returns(secpol, decision) == secpol.acl_active /\ decision.stage = "Bypass"

\* faulty variant: blocking is read before the reason is demoted
acl_blocking_m(secpol, decision) ==
    BlockReason_acl(decision.tags, decision.stage).decision = "Blocking"

\* the ACL reason is blocking once it entered the decision
acl_blocking(secpol, decision) == acl_reason(secpol, decision).decision = "Blocking"

\* faulty variant: an ACL challenge is always answered with the ACL profile's action
acl_challenge_m(mgh_, ch, acl_block, tags, log) ==
    [ decision |-> acl_block.decision, tags |-> acl_block.tags,
      calls |-> log \o <<acl_block.call>> ]

\* the decision an ACL challenge is answered with: the detector's challenge,
\* or the ACL profile's action when there is no detector
acl_challenge(mgh_, ch, acl_block, tags, log) ==
    IF mgh_ # None
    THEN [decision |-> ch.decision, tags |-> tags, calls |-> log \o ch.calls]
    ELSE [ decision |-> acl_block.decision, tags |-> acl_block.tags,
           calls |-> log \o <<acl_block.call>> ]

finish_acl(mgh_, cfrules_, info, cumulated, tags, stats0, log, env) ==
    LET reqinfo == info.reqinfo
        secpol == reqinfo.secpolicy
        acl_decision == env.acl_decision
        stats == stats_acl(stats0, IF acl_decision # None THEN 1 ELSE 0)
        log1 == log \o <<Call("check_acl", acl_decision, TRUE)>>
        decision == acl_decision[1]
        br == acl_reason(secpol, decision)
        blocking == acl_blocking(secpol, decision)
        cum1 == merge_decisions(cumulated, Decision_pass(<<br>>))
        tags1 == IF secpol.acl_profile.tags # {}
                 THEN insert_all(tags, secpol.acl_profile.tags, reason_locations(cum1.reasons))
                 ELSE tags
        td == to_decision(secpol.acl_profile.action, info.precision_level, mgh_, reqinfo,
                          tags1, <<>>)
        acl_block == [ decision |-> td.decision, tags |-> td.tags,
                       call |-> Call("to_decision", Some(secpol.acl_profile.action.content),
                                     TRUE) ]
        ch == challenge_phase01(env, reqinfo, <<>>, "Active")
        c == acl_challenge(mgh_, ch, acl_block, tags1, log1)
    IN  IF acl_decision = None
        THEN CHOOSE r \in { finish_cf(mgh_, cfrules_, info, cumulated, tags, vstats, vlog, env) :
                               vstats \in {stats}, vlog \in {log1} } : TRUE
        ELSE IF acl_bypass_returns(secpol, decision)
        THEN FinishRes(cum1, tags1, acl_stage_build(stats), log1)
        ELSE IF decision.challenge
        THEN FinishRes(merge_decisions(cum1, c.decision), c.tags, acl_stage_build(stats),
                       c.calls)
        ELSE IF blocking
        THEN FinishRes(merge_decisions(cum1, acl_block.decision), acl_block.tags,
                       acl_stage_build(stats), log1 \o <<acl_block.call>>)
        ELSE CHOOSE r \in { finish_cf(mgh_, cfrules_, info, vcum, vtags, vstats, vlog, env) :
                               vcum \in {cum1}, vtags \in {tags1}, vstats \in {stats},
                               vlog \in {log1} } : TRUE

\* faulty variant: any limit action returns, final or not
limit_short_circuits_m(limit_check, cumulated) == limit_check # None

\* the merged limit decision ends the pipeline
limit_short_circuits(limit_check, cumulated) == limit_check # None /\ is_final(cumulated)

analyze_finish(mgh_, cfrules_, p2_, env) ==
    LET info == p2_.info
        fp == flow_process(info.stats, p2_.flows, info.tags)
        lp == limit_process(fp.stats, p2_.limits, fp.tags)
        ld == to_decision(lp.check[1].action, info.precision_level, mgh_, info.reqinfo,
                          lp.tags, lp.check[1].reasons)
        cum == IF lp.check # None THEN merge_decisions(info.p0_decision, ld.decision)
               ELSE info.p0_decision
        tags == IF lp.check # None THEN ld.tags ELSE lp.tags
        log == IF lp.check # None
               THEN <<Call("to_decision", Some(lp.check[1].action.content), TRUE)>> ELSE <<>>
    IN  IF limit_short_circuits(lp.check, cum)
        THEN FinishRes(cum, tags, limit_stage_build(lp.stats), log)
        ELSE \* the arguments are values, computed once
             CHOOSE r \in { finish_acl(mgh_, cfrules_, info, vcum, vtags, vstats, vlog, env) :
                               vcum \in {cum}, vtags \in {tags}, vstats \in {lp.stats},
                               vlog \in {log} } : TRUE

(***************************************************************************)
(* DynGrasshopper (grasshopper.rs): the detector backend that calls the     *)
(* engine of a dynamic library.  Each method encodes its input, calls the   *)
(* engine, which writes a success flag and returns a pointer to a C string, *)
(* and is to release that string with free_string.  A method is modelled by *)
(* the set of its exits: what it returns (Ok, Err, a panic, or a crash),    *)
(* how many times it released the pointer, and whether it read through a    *)
(* NULL pointer.                                                            *)
(***************************************************************************)
NULL == "NULL"

\* What the engine answers to one call: the success flag, the pointer, and
\* whether the string pointed to parses as a GHResponse.  An error comes
\* with its error string; a success with a string or with NULL.
EngineAnswers ==
    { e \in [success : BOOLEAN, ptr : {NULL, "str"}, parses : BOOLEAN] :
        /\ ~e.success => e.ptr # NULL
        /\ (e.ptr = NULL \/ ~e.success) => ~e.parses }

\* the engine was not called
NoAnswer == [success |-> FALSE, ptr |-> NULL, parses |-> FALSE]

Exit(ret, released, null_deref) ==
    [ret |-> ret, released |-> released, null_deref |-> null_deref]

\* encoding the input failed: the method returns before it calls the engine
EncodeFailed == {Exit("Err", 0, FALSE)}

\* CStr::from_ptr(NULL) is undefined behaviour: the process crashes, or the
\* method goes on with whatever it read, and free_string(NULL) releases
\* nothing
from_null_ptr(rets) == {Exit("crash", 0, TRUE)} \cup {Exit(r, 0, TRUE) : r \in rets}

DynGrasshopper_is_human(encoded, e) ==
    IF ~encoded THEN EncodeFailed
    ELSE IF e.success
    THEN IF e.ptr = NULL THEN {Exit("Ok", 0, FALSE)} ELSE {Exit("Err", 0, FALSE)}
    ELSE IF e.ptr = NULL THEN from_null_ptr({"Err"})
    ELSE {Exit("Err", 1, FALSE)}

DynGrasshopper_handle_bio_report(encoded, e) ==
    IF ~encoded THEN EncodeFailed
    ELSE IF e.ptr = NULL THEN from_null_ptr(IF e.success THEN {"Ok", "panic"} ELSE {"Err"})
    ELSE IF e.success
    THEN IF e.parses THEN {Exit("Ok", 1, FALSE)} ELSE {Exit("panic", 0, FALSE)}
    ELSE {Exit("Err", 1, FALSE)}

DynGrasshopper_init_challenge(encoded, e) ==
    IF ~encoded THEN EncodeFailed
    ELSE IF e.ptr = NULL THEN from_null_ptr(IF e.success THEN {"Ok", "panic"} ELSE {"Err"})
    ELSE IF e.success
    THEN IF e.parses THEN {Exit("Ok", 1, FALSE)} ELSE {Exit("panic", 0, FALSE)}
    ELSE {Exit("Err", 1, FALSE)}

DynGrasshopper_verify_challenge(encoded, e) ==
    IF ~encoded THEN EncodeFailed
    ELSE IF e.ptr = NULL THEN from_null_ptr({IF e.success THEN "Ok" ELSE "Err"})
    ELSE {Exit(IF e.success THEN "Ok" ELSE "Err", 1, FALSE)}

DynGrasshopper_should_provide_app_sig(encoded, e) ==
    IF ~encoded THEN EncodeFailed
    ELSE IF e.ptr = NULL THEN from_null_ptr(IF e.success THEN {"Ok", "panic"} ELSE {"Err"})
    ELSE IF e.success
    THEN IF e.parses THEN {Exit("Ok", 1, FALSE)} ELSE {Exit("panic", 0, FALSE)}
    ELSE {Exit("Err", 1, FALSE)}

\* no call of the backend yet, no string of the engine outstanding
DynIdle == [ncalls |-> 0, live |-> 0, last |-> None]

\* the inputs of one call: whether the input encodes, and the engine's answer
DynInputs ==
    {<<TRUE, e>> : e \in EngineAnswers} \cup {<<FALSE, NoAnswer>>}

\* A method returned by the exit x.  live counts the strings the engine
\* returned that were not released.
DynReturn(fn, encoded, e, x) ==
    /\ dyn' = [ ncalls |-> dyn.ncalls + 1,
                live |-> dyn.live + (IF encoded /\ e.ptr # NULL THEN 1 - x.released ELSE 0),
                last |-> Some([fn |-> fn, called |-> encoded, answer |-> e, exit |-> x]) ]
    /\ UNCHANGED <<pc, mgh, p0, cfrules, p1, p2, result, calls>>

\* the backend can be called: a crash ends the process
DynReady ==
    /\ dyn.ncalls < MaxDynCalls
    /\ dyn.last # None => dyn.last[1].exit.ret # "crash"

DynIsHuman ==
    /\ DynReady
    /\ \E in \in DynInputs :
          \E x \in DynGrasshopper_is_human(in[1], in[2]) :
              DynReturn("is_human", in[1], in[2], x)

DynHandleBioReport ==
    /\ DynReady
    /\ \E in \in DynInputs :
          \E x \in DynGrasshopper_handle_bio_report(in[1], in[2]) :
              DynReturn("handle_bio_report", in[1], in[2], x)

DynInitChallenge ==
    /\ DynReady
    /\ \E in \in DynInputs :
          \E x \in DynGrasshopper_init_challenge(in[1], in[2]) :
              DynReturn("init_challenge", in[1], in[2], x)

DynVerifyChallenge ==
    /\ DynReady
    /\ \E in \in DynInputs :
          \E x \in DynGrasshopper_verify_challenge(in[1], in[2]) :
              DynReturn("verify_challenge", in[1], in[2], x)

DynShouldProvideAppSig ==
    /\ DynReady
    /\ \E in \in DynInputs :
          \E x \in DynGrasshopper_should_provide_app_sig(in[1], in[2]) :
              DynReturn("should_provide_app_sig", in[1], in[2], x)

(***************************************************************************)
(* analyze (analyze.rs): init, then query and finish unless init returned   *)
(* a result.  p1 is moved into analyze_query.  calls holds the calls of the *)
(* step just taken; cfrules is the rules argument analyze_finish was        *)
(* called with.                                                             *)
(***************************************************************************)
Init ==
    /\ pc = "init"
    /\ mgh \in {None, Some("gh")}
    /\ p0 \in InputCases
    /\ cfrules = None
    /\ p1 = None
    /\ p2 = None
    /\ result = None
    /\ calls = <<>>
    /\ dyn = DynIdle

AnalyzeInit ==
    /\ pc = "init"
    /\ \E env \in InitEnvs :
          \E r \in {analyze_init(mgh, p0, env)} :
              /\ p1' = r.p1
              /\ result' = r.res
              /\ calls' = r.calls
              /\ pc' = IF r.res # None THEN "done" ELSE "query"
    /\ UNCHANGED <<mgh, p0, cfrules, p2, dyn>>

\* faulty variant: a failure of the counter store is propagated instead of
\* absorbed, and analyze_finish never runs
AnalyzeQuery_m ==
    /\ pc = "query"
    /\ \E env \in QueryEnvs(Len(p1[1].flows), Len(p1[1].limits)) :
          \E r \in {analyze_query(p1[1], env)} :
              LET failed == \E i \in 1..Len(r.calls) : ~r.calls[i].ok
              IN  /\ p2' = IF failed THEN None ELSE Some(r.p2)
                  /\ calls' = r.calls
                  /\ pc' = IF failed THEN "failed" ELSE "finish"
    /\ p1' = None
    /\ UNCHANGED <<mgh, p0, cfrules, result, dyn>>

AnalyzeQuery ==
    /\ pc = "query"
    /\ \E env \in QueryEnvs(Len(p1[1].flows), Len(p1[1].limits)) :
          \E r \in {analyze_query(p1[1], env)} :
              /\ p2' = Some(r.p2)
              /\ calls' = r.calls
    /\ p1' = None
    /\ pc' = "finish"
    /\ UNCHANGED <<mgh, p0, cfrules, result, dyn>>

AnalyzeFinish ==
    /\ pc = "finish"
    /\ \E env \in FinishEnvs :
          /\ cfrules' = Some(env.cfrules)
          /\ \E r \in {analyze_finish(mgh, env.cfrules, p2[1], env)} :
                /\ calls' = r.calls
                /\ result' = Some([decision |-> r.decision, tags |-> r.tags, stats |-> r.stats])
    /\ pc' = "done"
    /\ UNCHANGED <<mgh, p0, p1, p2, dyn>>

Next == AnalyzeInit \/ AnalyzeQuery \/ AnalyzeFinish

Spec == Init /\ [][Next]_vars

\* A run of analyze that is not cancelled: the synchronous phases run to
\* their end, and the awaits of analyze_query complete once the counter
\* store has answered or failed.  The last conjunct is WF_vars(AnalyzeFinish)
\* written out: AnalyzeFinish ends the run, so no run takes it infinitely
\* often, and weak fairness is that it does not stay enabled for ever.
FairSpec ==
    /\ Spec
    /\ WF_vars(AnalyzeInit)
    /\ WF_vars(AnalyzeQuery)
    /\ []<>(~ENABLED <<AnalyzeFinish>>_vars)

\* The FFI backend on its own: the methods of DynGrasshopper called one
\* after the other, with every answer the engine can give.
InitDyn ==
    /\ pc = "init"
    /\ mgh = Some("gh")
    /\ p0 = CHOOSE x \in InputCases : TRUE
    /\ cfrules = None
    /\ p1 = None
    /\ p2 = None
    /\ result = None
    /\ calls = <<>>
    /\ dyn = DynIdle

NextDyn ==
    \/ DynIsHuman
    \/ DynHandleBioReport
    \/ DynInitChallenge
    \/ DynVerifyChallenge
    \/ DynShouldProvideAppSig

SpecDyn == InitDyn /\ [][NextDyn]_vars

(***************************************************************************)
(* Properties.  Helpers first: the request, the policy, the result, and     *)
(* what the calls of the step just taken show.                              *)
(***************************************************************************)
Req == p0.reqinfo

Policy == p0.reqinfo.secpolicy

\* analyze_init has run and returned InitResult::Res
FromInit == pc = "done" /\ p2 = None

\* analyze_finish has run
FromFinish == pc = "done" /\ p2 # None

\* calls holds the calls of analyze_init
AfterInit == pc = "query" \/ FromInit

Ops == {calls[i].op : i \in 1..Len(calls)}

CallsOf(op) == {i \in 1..Len(calls) : calls[i].op = op}

DetectorOps == {"init_challenge", "verify_challenge", "should_provide_app_sig", "handle_bio_report"}

Initiators(decision) == {decision.reasons[i].initiator : i \in 1..Len(decision.reasons)}

PassiveUri == starts_with(Req.uri, PrefixPassive)

BodyFailed == Req.body_decoding # None

ContentTypes == Policy.content_filter_profile.content_type

\* C1: a request under /c3650cdf with a detector present gets, from
\* analyze_init, exactly the decision of challenge_phase01 in Passive mode
\* (the challenge with status 247 and the detector's body and headers, or the
\* fail-safe decision), whatever the body decoding and the global filter say;
\* init_challenge(Passive) is the only call made, no check is built and
\* phase 1 is not entered.
C1_PassiveAlwaysShortCircuits ==
    (pc # "init" /\ PassiveUri /\ mgh # None) =>
        /\ FromInit
        /\ p1 = None
        /\ result # None
        /\ result[1].stats.processing_stage = "Mapped"
        /\ Len(calls) = 1
        /\ calls[1].op = "init_challenge"
        /\ calls[1].arg = Some("Passive")
        /\ result[1].decision \in
              { challenge_phase01([DummyOracle EXCEPT !.init_challenge = r], Req, <<>>,
                                  "Passive").decision :
                  r \in {x \in GHResponseResults : x.ok = calls[1].ok} }

C1_Witness ==
    /\ FromInit
    /\ PassiveUri
    /\ mgh # None
    /\ BodyFailed
    /\ ContentTypes # {}
    /\ p0.globalfilter_dec # None
    /\ calls[1].ok
    /\ result[1].decision.maction[1].status = 247

\* C2: when body decoding failed and the accepted content-type list is not
\* empty (and the passive magic URI did not return first), analyze_init
\* returns at the Mapped stage the content-filter profile's action with the
\* single reason body-malformed, and every extra tag of the profile is in
\* the tags at Body; with an empty list a decoding failure returns nothing:
\* no result carries a body-malformed reason.
C2_BodyMalformed ==
    /\ (pc # "init" /\ BodyFailed /\ ContentTypes # {} /\ ~(PassiveUri /\ mgh # None)) =>
          /\ FromInit
          /\ result[1].stats.processing_stage = "Mapped"
          /\ result[1].decision.maction = Some(Policy.content_filter_profile.action)
          /\ result[1].decision.reasons = <<BlockReason_body_malformed(Req.body_decoding[1])>>
          /\ \A t \in Policy.content_filter_profile.tags :
                /\ <<t>> \in DOMAIN result[1].tags
                /\ "Body" \in result[1].tags[<<t>>]
    /\ (pc = "done" /\ BodyFailed /\ ContentTypes = {}) =>
          "body-malformed" \notin Initiators(result[1].decision)
    /\ (AfterInit /\ BodyFailed /\ ContentTypes = {} /\ Ops \cap DetectorOps = {}
        /\ p0.globalfilter_dec = None) => pc = "query"

C2_Witness ==
    /\ FromInit
    /\ BodyFailed
    /\ ContentTypes # {}
    /\ ~PassiveUri
    /\ mgh # None
    /\ "body-malformed" \in Initiators(result[1].decision)
    /\ "Body" \in result[1].tags[<<"cf-extra">>]

MagicUri == \E pre \in MagicPrefixes : starts_with(Req.uri, pre)

\* C3: with a detector present and answering, a request under any of the
\* four magic prefixes is answered by analyze_init: the pipeline goes on to
\* the counter query only if a detector call failed, and the result carries
\* no flow, limit, ACL or content-filter reason.
C3_MagicUrisShortCircuit ==
    (MagicUri /\ mgh # None) =>
        /\ pc = "query" => \E i \in 1..Len(calls) : calls[i].op \in DetectorOps /\ ~calls[i].ok
        /\ FromInit =>
              Initiators(result[1].decision) \cap {"flow", "limit", "acl", "content-filter"} = {}

\* analyze_init came to the global filter: no magic URI and no malformed
\* body returned before it
ReachedGlobalFilter ==
    /\ AfterInit
    /\ ~(PassiveUri /\ mgh # None)
    /\ ~(BodyFailed /\ ContentTypes # {})
    /\ \A i \in 1..Len(calls) : calls[i].op \in DetectorOps => ~calls[i].ok

Gf == p0.globalfilter_dec

\* C4: a global-filter pre-decision that is an action is resolved through
\* to_decision; a final decision is returned by analyze_init at the Mapped
\* stage, and no check is built; a decision that is not final is the
\* p0_decision of phase 1, with its reasons; without an action the
\* p0_decision is Pass with no reasons.
C4_GlobalFilter ==
    ReachedGlobalFilter =>
        IF Gf # None
        THEN /\ \E i \in CallsOf("to_decision") : calls[i].arg = Some(Gf[1].action.content)
             /\ IF is_final(Decision_action(Gf[1].action, Gf[1].reasons))
                THEN /\ FromInit
                     /\ result[1].decision = Decision_action(Gf[1].action, Gf[1].reasons)
                     /\ result[1].stats.processing_stage = "Mapped"
                     /\ Ops \cap {"limit_info", "flow_info"} = {}
                ELSE /\ pc = "query"
                     /\ p1[1].info.p0_decision.maction = Some(Gf[1].action)
                     /\ p1[1].info.p0_decision.reasons = Gf[1].reasons
        ELSE /\ pc = "query"
             /\ p1[1].info.p0_decision = Decision_pass(<<>>)

C4_Witness ==
    /\ pc = "query"
    /\ ReachedGlobalFilter
    /\ Gf # None
    /\ p1[1].info.p0_decision.maction # None
    /\ Len(p1[1].info.p0_decision.reasons) = 1

Info == p2[1].info

Result == result[1]

LimitOver == {i \in 1..Len(p2[1].limits) : p2[1].limits[i].curcount > LimitThreshold}

LimitHit == FromFinish /\ LimitOver # {}

\* the running decision after the limit stage: the p0_decision, merged with
\* the decision of the first limit over its threshold
AfterLimit ==
    IF LimitOver = {} THEN Info.p0_decision
    ELSE LET first == CHOOSE i \in LimitOver : \A j \in LimitOver : i <= j
         IN  merge_decisions(
                 Info.p0_decision,
                 Decision_action(p2[1].limits[first].limit.action,
                                 <<MkReason("limit", <<"limit-rule">>, "Blocking",
                                            {"Request"})>>))

ContentFilterOps == {"content_filter_check", "HSDB.read"}

AclCalled == FromFinish /\ CallsOf("check_acl") # {}

\* what check_acl answered: None, or Some(AclDecision)
AclAnswer == calls[CHOOSE i \in CallsOf("check_acl") : TRUE].arg

AclMatched == AclCalled /\ AclAnswer # None

CfAnswered == FromFinish /\ CallsOf("content_filter_check") # {}

CfAnswer == calls[CHOOSE i \in CallsOf("content_filter_check") : TRUE].arg

IsPrefix(s, t) == Len(s) <= Len(t) /\ SubSeq(t, 1, Len(s)) = s

\* C5: when limit processing yields an action its decision is merged into
\* the running decision; a final merged decision is the result, with stats
\* of the Limit stage, and neither the ACL nor the content filter runs; one
\* that is not final goes on to the ACL check as the running decision.
C5_LimitStage ==
    LimitHit =>
        IF is_final(AfterLimit)
        THEN /\ Result.decision = AfterLimit
             /\ Result.stats.processing_stage = "Limit"
             /\ Ops \cap ({"check_acl"} \cup ContentFilterOps) = {}
        ELSE /\ "check_acl" \in Ops
             /\ Result.stats.processing_stage \in {"Acl", "ContentFilter"}
             /\ IsPrefix(AfterLimit.reasons, Result.decision.reasons)
             /\ (AclAnswer = None /\ (~CfAnswered \/ CfAnswer = None)) =>
                    Result.decision = AfterLimit

C5_Witness ==
    /\ LimitHit
    /\ Info.p0_decision.maction # None
    /\ is_final(Result.decision)
    /\ Result.stats.processing_stage = "Limit"
    /\ Len(Result.decision.reasons) = 2

AclStageReached == Result.stats.processing_stage = "Acl"

CfStageReached == Result.stats.processing_stage = "ContentFilter"

\* the running decision once the ACL reason r was merged into it
WithAclReason(r) == merge_decisions(AfterLimit, Decision_pass(<<r>>))

\* what a bypass with an active ACL returns
BypassReturn ==
    /\ AclStageReached
    /\ Ops \cap ContentFilterOps = {}
    /\ Result.decision = WithAclReason(BlockReason_acl(AclAnswer[1].tags, "Bypass"))
    /\ Result.decision.maction = AfterLimit.maction
    /\ ~is_final(Result.decision)

\* C6 as stated: a Bypass decision with acl_active returns a pass holding the
\* accumulated reasons and the Bypass reason, at the Acl stage, the content
\* filter skipped; with acl_active false a Bypass decision never returns
\* early and the content-filter stage still runs.
C6_Original ==
    (AclMatched /\ AclAnswer[1].stage = "Bypass") =>
        IF Policy.acl_active THEN BypassReturn ELSE CfStageReached

\* C6, amended: with acl_active false a Bypass decision does not return as a
\* bypass; the content-filter stage still runs unless the decision also asks
\* for a challenge, which returns at the Acl stage.
C6_Bypass ==
    (AclMatched /\ AclAnswer[1].stage = "Bypass") =>
        IF Policy.acl_active THEN BypassReturn
        ELSE IF AclAnswer[1].challenge THEN AclStageReached
        ELSE CfStageReached

C6_Witness ==
    /\ AclMatched
    /\ AclAnswer[1].stage = "Bypass"
    /\ AclAnswer[1].challenge
    /\ Policy.acl_active
    /\ AclStageReached
    /\ Len(Result.decision.reasons) = 3
    /\ Result.decision.reasons[3].initiator = "acl"

\* the ACL asks for a challenge and did not return as a bypass
AclChallenges ==
    /\ AclMatched
    /\ AclAnswer[1].challenge
    /\ ~(Policy.acl_active /\ AclAnswer[1].stage = "Bypass")

\* C7: on an ACL challenge with a detector, challenge_phase01 runs in Active
\* mode and its decision, merged into the running decision, is returned at
\* the Acl stage; without a detector the ACL profile's action is returned
\* and nothing carries the tag challenge_phase01; the content filter never
\* runs.
C7_AclChallenge ==
    AclChallenges =>
        LET running == WithAclReason(acl_reason(Policy, AclAnswer[1]))
            a == Result.decision.maction[1]
        IN  /\ AclStageReached
            /\ Ops \cap ContentFilterOps = {}
            /\ Result.decision.maction # None
            /\ IF mgh # None
               THEN \E i \in CallsOf("init_challenge") :
                       /\ calls[i].arg = Some("Active")
                       /\ a.atype = "Block" /\ a.block_mode
                       /\ IF calls[i].ok
                          THEN /\ a.status = 247
                               /\ a.extra_tags = Some({"challenge_phase01"})
                               /\ Result.decision.reasons = running.reasons
                          ELSE /\ a.status = 500
                               /\ Result.decision.reasons =
                                     running.reasons
                                     \o <<BlockReason_phase01_unknown(<<"not implemented">>)>>
               ELSE /\ CallsOf("init_challenge") = {}
                    /\ a = Policy.acl_profile.action
                    /\ Result.decision.reasons = running.reasons
                    /\ a.extra_tags # Some({"challenge_phase01"})
                    /\ <<"challenge_phase01">> \notin DOMAIN Result.tags

C7_Witness ==
    /\ AclChallenges
    /\ mgh # None
    /\ Result.decision.maction[1].status = 247
    /\ Len(Result.decision.reasons) = 1

\* an action only the ACL stage produces: the ACL profile's action, or the
\* answer of challenge_phase01
AclStageAction(a) == a.content = "acl-action" \/ a.status = 247 \/ a.status = 500

AclEnforced ==
    /\ Result.decision.maction # None
    /\ AclStageAction(Result.decision.maction[1])

\* C8 as stated: with acl_active false, whatever the ACL answers (a challenge
\* included), the ACL stage adds no action to the decision and does not end
\* the pipeline.
C8_Original == (AclMatched /\ ~Policy.acl_active) => (CfStageReached /\ ~AclEnforced)

\* C8, amended: with acl_active false an ACL answer that does not ask for a
\* challenge adds no action and does not end the pipeline; one that asks for
\* a challenge is enforced all the same: the challenge, or without a detector
\* the ACL profile's action, is returned at the Acl stage.
C8_InactiveAcl ==
    (AclMatched /\ ~Policy.acl_active) =>
        IF AclAnswer[1].challenge
        THEN /\ AclStageReached
             /\ AclEnforced
             /\ Result.decision.maction[1].atype = "Block"
             /\ Result.decision.maction[1].block_mode
        ELSE /\ CfStageReached
             /\ ~AclEnforced

C8_Witness ==
    /\ AclMatched
    /\ ~Policy.acl_active
    /\ AclAnswer[1].stage = "Deny"
    /\ ~AclAnswer[1].challenge
    /\ CfStageReached
    /\ "acl" \in Initiators(Result.decision)

\* C9: with acl_active false no reason of initiator acl is Blocking in any
\* result.
C9_NoBlockingAclReason ==
    (pc = "done" /\ ~Policy.acl_active) =>
        \A i \in 1..Len(Result.decision.reasons) :
            Result.decision.reasons[i].initiator = "acl" =>
                Result.decision.reasons[i].decision # "Blocking"

C9_Witness ==
    /\ AclMatched
    /\ ~Policy.acl_active
    /\ AclAnswer[1].stage = "Deny"
    /\ AclAnswer[1].challenge
    /\ AclStageReached
    /\ \E i \in 1..Len(Result.decision.reasons) :
          /\ Result.decision.reasons[i].initiator = "acl"
          /\ Result.decision.reasons[i].decision = "Inactive"

CfBlocked == CfAnswered /\ CfAnswer # None /\ CfAnswer[1].blocking

\* C10: with content_filter_active false every content-filter reason of the
\* result is demoted; a blocking content-filter answer still has its action
\* built, and whenever the content-filter profile's action is the action of
\* the result its block_mode is false.
C10_InactiveContentFilter ==
    (FromFinish /\ ~Policy.content_filter_active) =>
        /\ \A i \in 1..Len(Result.decision.reasons) :
              Result.decision.reasons[i].initiator = "content-filter" =>
                  Result.decision.reasons[i].decision # "Blocking"
        /\ CfBlocked =>
              /\ \E i \in CallsOf("to_decision") :
                    calls[i].arg = Some(Policy.content_filter_profile.action.content)
              /\ Result.decision.maction # None
        /\ (Result.decision.maction # None
            /\ Result.decision.maction[1].content = Policy.content_filter_profile.action.content)
              => ~Result.decision.maction[1].block_mode

C10_Witness ==
    /\ FromFinish
    /\ ~Policy.content_filter_active
    /\ CfBlocked
    /\ Result.decision.maction # None
    /\ Result.decision.maction[1].content = "cf-action"
    /\ Result.decision.maction[1].atype = "Block"
    /\ ~Result.decision.maction[1].block_mode
    /\ \E i \in 1..Len(Result.decision.reasons) :
          /\ Result.decision.reasons[i].initiator = "content-filter"
          /\ Result.decision.reasons[i].decision = "Inactive"

\* calls holds the calls of analyze_query, which gave up on the counter store
QueryFailed ==
    /\ pc = "finish"
    /\ \E i \in 1..Len(calls) :
          calls[i].op \in {"redis_async_conn", "query_async"} /\ ~calls[i].ok

\* C11: when connecting to the counter store or executing the pipeline
\* fails, analyze_query returns a phase 2 with no flow and no limit result
\* and the info of phase 1 as it was; analyze_finish then reports no limit
\* and no flow violation, and the ACL check and, unless the ACL stage
\* returns, the content-filter stage still run.
C11_FailOpen ==
    [][ /\ (pc = "query" /\ QueryFailed') =>
              p2'[1] = [flows |-> <<>>, limits |-> <<>>, info |-> p1[1].info]
        /\ (QueryFailed /\ pc' = "done") =>
              /\ Initiators(result'[1].decision) \cap {"limit", "flow"} = {}
              /\ DOMAIN result'[1].tags \cap {<<"limit-hit">>, <<"flow-last-step">>} = {}
              /\ IsPrefix(p2[1].info.p0_decision.reasons, result'[1].decision.reasons)
              /\ result'[1].stats.processing_stage \in {"Acl", "ContentFilter"}
              /\ "check_acl" \in Ops'
              /\ AclAnswer' # None => "acl" \in Initiators(result'[1].decision)
              /\ AclAnswer' = None => Ops' \cap ContentFilterOps # {}
      ]_vars

C11_Witness ==
    /\ QueryFailed
    /\ calls[Len(calls)].op = "query_async"
    /\ p2[1].flows = <<>>
    /\ p2[1].limits = <<>>
    /\ p2[1].info.p0_decision.maction # None

\* calls holds the calls of analyze_query, and the store answered
QueryAnswered == pc = "finish" /\ \E i \in CallsOf("query_async") : calls[i].ok

\* the pipeline executed and the results the store returned for it
Exec == calls[CHOOSE i \in CallsOf("query_async") : TRUE].arg[1]

\* the store's answer to the query of one check
AnswerTo(check) == Exec.res[CHOOSE k \in 1..Len(Exec.pipe) : Exec.pipe[k] = check]

\* C12: the pipeline holds the flow queries, then the limit queries, and
\* each flow result and each limit result of phase 2 is computed from the
\* store's answer to the query of its own check.
C12_QueryOrder ==
    QueryAnswered =>
        /\ Len(Exec.pipe) >= Len(p2[1].flows) + Len(p2[1].limits)
        /\ (\A i \in 1..Len(calls) : calls[i].ok) =>
              Len(Exec.pipe) = Len(p2[1].flows) + Len(p2[1].limits)
        /\ \A k, l \in 1..Len(Exec.pipe) :
              (Exec.pipe[k].kind = "flow" /\ Exec.pipe[l].kind = "limit") => k < l
        /\ \A i \in 1..Len(p2[1].flows) :
              p2[1].flows[i].tp =
                  IF unwrap_or_0(AnswerTo(FlowCheck(p2[1].flows[i].id))) = 0
                  THEN "NotInSequence" ELSE "LastStep"
        /\ \A j \in 1..Len(p2[1].limits) :
              p2[1].limits[j].curcount = unwrap_or_0(AnswerTo(p2[1].limits[j].limit))

C12_Witness ==
    /\ QueryAnswered
    /\ Len(p2[1].flows) = 1
    /\ Len(p2[1].limits) = 1
    /\ p2[1].flows[1].tp = "NotInSequence"
    /\ p2[1].limits[1].curcount = 11

\* every tag of a, at every location a has it, is in b
TagsLeq(a, b) == \A t \in DOMAIN a : t \in DOMAIN b /\ a[t] \subseteq b[t]

\* the tags analyze_init stamps the policy's identity with
PolicyTags ==
    { <<"securitypolicy", Policy.policy_name>>, <<"securitypolicy-entry", Policy.entry_name>>,
      <<"aclid", Policy.acl_profile.id>>, <<"aclname", Policy.acl_profile.name>>,
      <<"contentfilterid", Policy.content_filter_profile.id>>,
      <<"contentfiltername", Policy.content_filter_profile.name>> }

HasTags(tags, ts) == \A t \in ts : <<t>> \in DOMAIN tags

\* C13: the tags handed on by each phase and returned in the result hold
\* every tag of itags at all its locations, and every tag a stage inserted:
\* the policy's identity, the extra tags of each action resolved, the tags
\* of flow and limit processing, of the ACL profile and of the content
\* filter, whether or not a reason was demoted.
C13_TagsSuperset ==
    /\ pc = "query" =>
          /\ TagsLeq(p0.itags, p1[1].info.tags)
          /\ PolicyTags \subseteq DOMAIN p1[1].info.tags
          /\ Gf # None => HasTags(p1[1].info.tags, Gf[1].action.extra_tags[1])
    /\ p2 # None => TagsLeq(p0.itags, Info.tags)
    /\ pc = "done" =>
          /\ TagsLeq(p0.itags, Result.tags)
          /\ PolicyTags \subseteq DOMAIN Result.tags
    /\ (FromInit /\ "body-malformed" \in Initiators(Result.decision)) =>
          /\ HasTags(Result.tags, Policy.content_filter_profile.tags)
          /\ HasTags(Result.tags, Policy.content_filter_profile.action.extra_tags[1])
    /\ FromFinish =>
          /\ TagsLeq(Info.tags, Result.tags)
          /\ LimitHit => HasTags(Result.tags, {"limit-hit", "limit-action"})
          /\ (\E i \in 1..Len(p2[1].flows) : p2[1].flows[i].tp = "LastStep") =>
                HasTags(Result.tags, {"flow-last-step"})
          /\ AclMatched => HasTags(Result.tags, Policy.acl_profile.tags)
          /\ (CfAnswered /\ CfAnswer # None) =>
                /\ HasTags(Result.tags, {"cf-rule"})
                /\ HasTags(Result.tags, Policy.content_filter_profile.tags)
                /\ reason_locations(CfAnswer[1].reasons)
                       \subseteq Result.tags[<<"cf-rule">>]

C13_Witness ==
    /\ FromFinish
    /\ ~Policy.acl_active
    /\ ~Policy.content_filter_active
    /\ AclMatched
    /\ CfAnswered
    /\ CfAnswer # None
    /\ \E i \in 1..Len(Result.decision.reasons) : Result.decision.reasons[i].decision = "Inactive"
    /\ HasTags(Result.tags, {"acl-extra", "cf-extra", "cf-rule"})
    /\ <<"ip", "1-2-3-4">> \in DOMAIN Result.tags

\* the return of the ACL stage: an active bypass, a challenge, or a reason
\* that is blocking once it entered the decision
AclReturns ==
    /\ AclMatched
    /\ \/ Policy.acl_active /\ AclAnswer[1].stage = "Bypass"
       \/ AclAnswer[1].challenge
       \/ acl_reason(Policy, AclAnswer[1]).decision = "Blocking"

Stage == Result.stats.processing_stage

\* C14: a result of analyze_init is built at the Mapped stage, a final
\* limit decision at the Limit stage, every return of the ACL stage at the
\* Acl stage and every other result at the ContentFilter stage; a result
\* has an acl reason only from the Acl stage on and a content-filter reason
\* only at the ContentFilter stage, and the check a reason names was called.
C14_StatsStage ==
    pc = "done" =>
        /\ FromInit => Stage = "Mapped"
        /\ FromFinish =>
              Stage = IF LimitHit /\ is_final(AfterLimit) THEN "Limit"
                      ELSE IF AclReturns THEN "Acl"
                      ELSE "ContentFilter"
        /\ Stage = "Limit" => Ops \cap ({"check_acl"} \cup ContentFilterOps) = {}
        /\ Stage = "Acl" => "check_acl" \in Ops /\ Ops \cap ContentFilterOps = {}
        /\ Stage = "ContentFilter" => "check_acl" \in Ops /\ Ops \cap ContentFilterOps # {}
        /\ "acl" \in Initiators(Result.decision) =>
              Stage \in {"Acl", "ContentFilter"} /\ AclMatched
        /\ "content-filter" \in Initiators(Result.decision) =>
              Stage = "ContentFilter" /\ CfAnswered /\ CfAnswer # None
        /\ "limit" \in Initiators(Result.decision) => FromFinish /\ LimitHit

C14_Witness ==
    /\ FromFinish
    /\ Stage = "Acl"
    /\ AclAnswer[1].stage = "Deny"
    /\ ~AclAnswer[1].challenge
    /\ Initiators(Result.decision) = {"global-filter", "limit", "acl"}

\* the path is under a magic prefix as analyze_init tests them
MagicUriTested ==
    \E pre \in {PrefixPassive, PrefixPhase02, PrefixAppSig, PrefixBioInit} :
        starts_with(Req.uri, pre)

\* the body-malformed test of analyze_init applies
BodyApplies == BodyFailed /\ ContentTypes # {}

\* a detector call of the magic URIs tested after the body gave a decision
MagicDecided ==
    /\ AfterInit
    /\ \E i \in 1..Len(calls) : calls[i].op \in DetectorOps \ {"init_challenge"} /\ calls[i].ok

\* the order from the global filter on: final global filter, final limit,
\* ACL bypass, ACL challenge, ACL block, content filter
OrderFromGlobalFilter ==
    /\ (ReachedGlobalFilter /\ Gf # None /\ is_final(Decision_action(Gf[1].action, Gf[1].reasons)))
          => FromInit /\ Result.decision = Decision_action(Gf[1].action, Gf[1].reasons)
    /\ (LimitHit /\ is_final(AfterLimit)) => Stage = "Limit" /\ "check_acl" \notin Ops
    /\ AclMatched =>
          IF Policy.acl_active /\ AclAnswer[1].stage = "Bypass"
          THEN BypassReturn /\ Ops \cap {"init_challenge", "to_decision"} \subseteq
                                   (IF LimitHit THEN {"to_decision"} ELSE {})
          ELSE IF AclAnswer[1].challenge
          THEN /\ Stage = "Acl"
               /\ mgh # None =>
                     /\ "init_challenge" \in Ops
                     /\ Result.decision.maction[1].status \in {247, 500}
          ELSE IF acl_reason(Policy, AclAnswer[1]).decision = "Blocking"
          THEN /\ Stage = "Acl"
               /\ Result.decision.maction[1].content = "acl-action"
               /\ Ops \cap ContentFilterOps = {}
          ELSE Stage = "ContentFilter"

\* C15 as stated: every magic URI comes before the malformed body: with a
\* detector present the detector is consulted for a request under a magic
\* prefix, and no such request is answered as a malformed body before that.
C15_Original ==
    /\ (AfterInit /\ MagicUriTested /\ mgh # None) => Ops \cap DetectorOps # {}
    /\ OrderFromGlobalFilter

\* C15, amended: the order is: passive magic URI, malformed body, the
\* magic URIs of phase 02, app signature and biometric report, final global
\* filter, final limit, ACL bypass, ACL challenge, ACL block, content filter.
C15_Precedence ==
    /\ (pc # "init" /\ PassiveUri /\ mgh # None) => FromInit /\ Ops = {"init_challenge"}
    /\ (pc # "init" /\ ~(PassiveUri /\ mgh # None) /\ BodyApplies) =>
          /\ FromInit
          /\ Ops = {"to_decision"}
          /\ Initiators(Result.decision) = {"body-malformed"}
    /\ MagicDecided =>
          /\ FromInit
          /\ ~BodyApplies
          /\ "to_decision" \notin Ops
          /\ Result.decision.reasons = <<>>
          /\ Result.decision.maction[1].content # "gf-action"
    /\ OrderFromGlobalFilter

C15_Witness ==
    /\ FromInit
    /\ starts_with(Req.uri, PrefixPhase02)
    /\ mgh # None
    /\ BodyApplies
    /\ Gf # None
    /\ is_final(Decision_action(Gf[1].action, Gf[1].reasons))
    /\ Initiators(Result.decision) = {"body-malformed"}

\* a detector call of phase 02, app signature or biometric report failed
MagicFailed ==
    /\ AfterInit
    /\ \E i \in 1..Len(calls) : calls[i].op \in DetectorOps \ {"init_challenge"} /\ ~calls[i].ok

\* a call log without its detector calls
NoDetector(log) == SelectSeq(log, LAMBDA c : c.op \notin DetectorOps)

\* C16: when the detector call of phase-02 verification, app-signature
\* gating or biometric-report ingestion fails, the function returns no
\* decision and analyze_init goes on: its outcome (result or phase 1) and
\* its other calls are those of the same request without a detector.
C16_DetectorFailureContinues ==
    MagicFailed =>
        /\ challenge_phase02(DummyOracle, Req).decision = None
        /\ check_app_sig(DummyOracle, Req).decision = None
        /\ handle_bio_reports(DummyOracle, Req, p0.precision_level).decision = None
        /\ \E env \in {e \in InitEnvs : e.gh = DummyOracle} :
              LET r == analyze_init(None, p0, env)
              IN  /\ r.res = result
                  /\ r.p1 = p1
                  /\ r.calls = NoDetector(calls)

C16_Witness ==
    /\ pc = "query"
    /\ MagicFailed
    /\ calls[1].op = "verify_challenge"
    /\ Gf # None
    /\ Len(p1[1].info.p0_decision.reasons) = 1

\* C17: without a detector no magic-URI step acts: no detector call is
\* made, and the outcome of analyze_init for a path under a magic prefix is
\* that of the same request with an ordinary path.
C17_DetectorAbsent ==
    (AfterInit /\ mgh = None /\ MagicUri) =>
        /\ Ops \cap DetectorOps = {}
        /\ \E env \in {e \in InitEnvs : e.gh = DummyOracle} :
              LET r == analyze_init(None, [p0 EXCEPT !.reqinfo.uri = <<"/index">>], env)
              IN  /\ r.res = result
                  /\ r.calls = calls
                  /\ (r.p1 = None) = (p1 = None)
                  /\ p1 # None => p1[1] = [r.p1[1] EXCEPT !.info.reqinfo.uri = Req.uri]

C17_Witness ==
    /\ FromInit
    /\ mgh = None
    /\ PassiveUri
    /\ BodyApplies
    /\ Initiators(Result.decision) = {"body-malformed"}

\* C18: a request under /8d47-ffc3-0f63-4b3c-c5c9-5699-6d5b-3a1 that no
\* earlier step answered, with a detector present, has handle_bio_report
\* called with its precision level, and a decision it returns is the result
\* of analyze_init.
C18_BioReport ==
    (AfterInit /\ starts_with(Req.uri, PrefixBio) /\ mgh # None /\ ~BodyApplies) =>
        \E i \in CallsOf("handle_bio_report") :
            /\ calls[i].arg = Some(p0.precision_level)
            /\ calls[i].ok =>
                  /\ FromInit
                  /\ Result.decision.maction[1].extra_tags = Some({"handle_bio_reports"})

\* the reasons challenge_phase01 may be handed
ReasonLists == {<<>>, <<BlockReason_acl({"acl-tag"}, "Deny")>>}

\* the fail-safe decision for the detector's error message msg
FailSafe(msg) ==
    [ maction |-> Some([ atype |-> "Block", block_mode |-> TRUE, headers |-> None,
                         status |-> 500, content |-> "internal_error", extra_tags |-> None ]),
      reasons |-> <<BlockReason_phase01_unknown(msg)>> ]

InitChallengeFailed == \E i \in CallsOf("init_challenge") : ~calls[i].ok

\* C19: when init_challenge fails, challenge_phase01 returns, in every mode
\* and whatever reasons it was handed, the fail-safe decision: Block with
\* block_mode, status 500, body internal_error, no extra tags, and the one
\* reason phase01_unknown with the detector's message.  That is the result
\* for the passive magic URI; for an ACL challenge it is the action of the
\* result, and its reason the last and only phase01 reason.
C19_FailSafe ==
    /\ \A msg \in GHErrors \cup {<<"timeout">>}, mode \in GHMode, reasons \in ReasonLists :
          challenge_phase01([DummyOracle EXCEPT !.init_challenge = Err(msg)], Req, reasons,
                            mode).decision = FailSafe(msg)
    /\ (FromInit /\ InitChallengeFailed) => Result.decision = FailSafe(<<"not implemented">>)
    /\ (FromFinish /\ InitChallengeFailed) =>
          LET rs == Result.decision.reasons
          IN  /\ Result.decision.maction = FailSafe(<<"not implemented">>).maction
              /\ rs[Len(rs)] = BlockReason_phase01_unknown(<<"not implemented">>)
              /\ Cardinality({i \in 1..Len(rs) : rs[i].initiator = "phase01-unknown"}) = 1

C19_Witness ==
    /\ FromFinish
    /\ AclChallenges
    /\ InitChallengeFailed
    /\ Result.decision.maction[1].status = 500
    /\ Len(Result.decision.reasons) = 2

InitChallengeAnswered == \E i \in CallsOf("init_challenge") : calls[i].ok

\* the challenge action for the detector's response r
ChallengeAction(r) ==
    [ atype |-> "Block", block_mode |-> TRUE, headers |-> Some(r.headers), status |-> 247,
      content |-> r.str_response, extra_tags |-> Some({"challenge_phase01"}) ]

\* C20: when init_challenge answers, challenge_phase01 returns, in every
\* mode, a Block with block_mode, status 247 whatever status_code the
\* detector gave, the detector's body and headers and the extra tags
\* {challenge_phase01}, with the reasons it was handed; that action is the
\* action of the result, for the passive magic URI and for an ACL challenge.
C20_Phase01Challenge ==
    /\ \A r \in GHResponses, mode \in GHMode, reasons \in ReasonLists :
          /\ r.status_code # 247
          /\ challenge_phase01([DummyOracle EXCEPT !.init_challenge = Ok(r)], Req, reasons,
                               mode).decision
                = [maction |-> Some(ChallengeAction(r)), reasons |-> reasons]
    /\ (pc = "done" /\ InitChallengeAnswered) =>
          /\ Result.decision.maction # None
          /\ \E r \in GHResponses : Result.decision.maction[1] = ChallengeAction(r)
          /\ "phase01-unknown" \notin Initiators(Result.decision)

C20_Witness ==
    /\ FromInit
    /\ InitChallengeAnswered
    /\ calls[1].arg = Some("Passive")
    /\ Result.decision.maction[1].content = "resp"
    /\ Result.decision.maction[1].status = 247

VerifyAnswered == AfterInit /\ \E i \in CallsOf("verify_challenge") : calls[i].ok

\* the token verify_challenge answered with
Verified == calls[CHOOSE i \in CallsOf("verify_challenge") : TRUE].arg[1]

\* C21: when verify_challenge answers with the token v for a request under
\* the phase-02 prefix, analyze_init returns the decision of
\* challenge_phase02: Block with block_mode, status 248, the extra tags
\* {challenge_phase02}, no reason, and the single header Set-Cookie with the
\* value rbzid=, then v with every = replaced by -, then ; Path=/; HttpOnly.
C21_Phase02Cookie ==
    VerifyAnswered =>
        /\ starts_with(Req.uri, PrefixPhase02)
        /\ FromInit
        /\ Result.decision.reasons = <<>>
        /\ LET a == Result.decision.maction[1]
                h == CHOOSE x \in a.headers[1] : TRUE
                cookie == h[2]
                w == SubSeq(cookie, 2, Len(cookie) - 1)
            IN  /\ a.atype = "Block" /\ a.block_mode
                /\ a.status = 248
                /\ a.content = "{}"
                /\ a.extra_tags = Some({"challenge_phase02"})
                /\ Cardinality(a.headers[1]) = 1
                /\ h[1] = "Set-Cookie"
                /\ cookie[1] = "rbzid="
                /\ cookie[Len(cookie)] = "; Path=/; HttpOnly"
                /\ Len(w) = Len(Verified)
                /\ \A i \in 1..Len(w) :
                      /\ w[i] # "="
                      /\ w[i] = IF Verified[i] = "=" THEN "-" ELSE Verified[i]

C21_Witness ==
    /\ VerifyAnswered
    /\ Verified = <<"a", "=">>
    /\ Result.decision.maction[1].status = 248

StoreOps == {"redis_async_conn", "query_async"}

\* C22: analyze_query contacts the counter store only with a flow or limit
\* check to query: with none it returns an empty phase 2 and makes no call;
\* otherwise it opens one connection and, if that succeeded, executes the
\* pipeline once.  analyze_query runs once, after analyze_init returned
\* phase 1, and no other step calls the store; after a result of
\* analyze_init nothing more runs.
C22_StoreContactedOnce ==
    [][ /\ pc' = "finish" =>
              /\ pc = "query" /\ p1 # None
              /\ IF p1[1].flows = <<>> /\ p1[1].limits = <<>>
                 THEN /\ calls' = <<>>
                      /\ p2'[1] = [flows |-> <<>>, limits |-> <<>>, info |-> p1[1].info]
                 ELSE /\ Cardinality(CallsOf("redis_async_conn")') = 1
                      /\ calls'[1].op = "redis_async_conn"
                      /\ Cardinality(CallsOf("query_async")') = IF calls'[1].ok THEN 1 ELSE 0
                      /\ calls'[1].ok => calls'[2].op = "query_async"
        /\ pc' # "finish" => Ops' \cap StoreOps = {}
        /\ pc = "done" => pc' = "done"
        /\ (pc = "init" /\ result' # None) => pc' = "done" /\ p2' = None
      ]_vars

C22_Witness ==
    /\ pc = "finish"
    /\ calls = <<>>
    /\ p2[1].flows = <<>>
    /\ p2[1].limits = <<>>
    /\ p2[1].info.p0_decision.maction # None

\* the read lock of the rule database was asked for and not obtained
HsdbReadFailed == FromFinish /\ \E i \in CallsOf("HSDB.read") : ~calls[i].ok

\* the running decision after the ACL stage
AfterAcl ==
    IF AclMatched THEN WithAclReason(acl_reason(Policy, AclAnswer[1])) ELSE AfterLimit

\* C24: with the Global rules and a failed read lock on the rule database
\* the content filter is skipped: content_filter_check is not called, the
\* stage contributes a pass without reasons, the stats hold the
\* no-content-filter marker at the ContentFilter stage, and the decision of
\* the result is the running decision after the ACL stage.
C24_LockFailure ==
    HsdbReadFailed =>
        /\ cfrules[1].kind = "Global"
        /\ "content_filter_check" \notin Ops
        /\ \A i \in CallsOf("to_decision") :
              calls[i].arg # Some(Policy.content_filter_profile.action.content)
        /\ Result.stats.cf = Some("no_content_filter")
        /\ CfStageReached
        /\ Result.decision = AfterAcl
        /\ Result.decision = merge_decisions(AfterAcl, Decision_pass(<<>>))
        /\ "content-filter" \notin Initiators(Result.decision)

C24_Witness ==
    /\ HsdbReadFailed
    /\ AclMatched
    /\ AclAnswer[1].stage = "Deny"
    /\ Result.stats.cf = Some("no_content_filter")
    /\ Result.decision.maction = None
    /\ "acl" \in Initiators(Result.decision)

\* the number of read guards held after the calls of log
RECURSIVE Held(_)
Held(log) ==
    IF log = <<>> THEN 0
    ELSE LET c == log[Len(log)]
             before == Held(SubSeq(log, 1, Len(log) - 1))
         IN  IF c.op = "HSDB.read" /\ c.ok THEN before + 1
             ELSE IF c.op = "drop(rd)" THEN before - 1
             ELSE before

HsdbOps == {"HSDB.read", "drop(rd)"}

\* C26: the read lock of the rule database is never held across a
\* suspension point: it is asked for only by analyze_finish, after
\* analyze_query returned phase 2; every guard obtained is dropped before
\* analyze_finish returns; no call to the counter store is made while a
\* guard is held; analyze_init and analyze_query never ask for it.
C26_NoLockAcrossAwait ==
    /\ Held(calls) = 0
    /\ \A n \in 1..Len(calls) :
          /\ Held(SubSeq(calls, 1, n)) \in {0, 1}
          /\ Held(SubSeq(calls, 1, n - 1)) > 0 => calls[n].op \notin StoreOps
    /\ Ops \cap HsdbOps # {} => FromFinish
    /\ (Ops \cap HsdbOps # {} /\ Ops \cap StoreOps # {}) => FALSE

C26_Witness ==
    /\ FromFinish
    /\ \E i \in CallsOf("HSDB.read") :
          /\ calls[i].ok
          /\ i + 2 \in CallsOf("drop(rd)")
          /\ calls[i + 1].op = "content_filter_check"
    /\ p2[1].limits # <<>>

Replied == pc = "finish" /\ \E i \in CallsOf("query_async") : calls[i].arg # None

\* the resolution of the checks of one kind was not seen to fail
Resolved(kind) ==
    \A i \in CallsOf(IF kind = "flow" THEN "flow_resolve_query" ELSE "limit_resolve_query") :
        calls[i].ok

\* phase 2 holds the result of the check, computed from the reply r
Delivered(check, r) ==
    IF check.kind = "flow"
    THEN \E i \in 1..Len(p2[1].flows) :
            /\ p2[1].flows[i].id = check.id
            /\ p2[1].flows[i].tp = IF unwrap_or_0(r) = 0 THEN "NotInSequence" ELSE "LastStep"
    ELSE \E j \in 1..Len(p2[1].limits) :
            /\ p2[1].limits[j].limit = check
            /\ p2[1].limits[j].curcount = unwrap_or_0(r)

\* C23: a decode error on one counter query drops the check of that query
\* only: every check whose own reply decodes, and whose resolution did not
\* fail, has its result in phase 2, computed from its own reply.
C23_ErrorsSwallowedIndividually ==
    Replied =>
        \A k \in 1..Len(Exec.pipe) :
            (Exec.res[k] # Undecodable /\ Resolved(Exec.pipe[k].kind)) =>
                Delivered(Exec.pipe[k], Exec.res[k])

\* the last call of the backend
LastCall == dyn.last[1]

\* C25: on every exit of is_human, init_challenge, verify_challenge,
\* should_provide_app_sig and handle_bio_report the pointer the engine
\* returned is released through free_string exactly once, so that no string
\* of the engine stays outstanding, and no method reads through a NULL
\* pointer.
C25_PointersReleased ==
    dyn.last # None =>
        /\ ~LastCall.exit.null_deref
        /\ (LastCall.called /\ LastCall.answer.ptr # NULL) => LastCall.exit.released = 1
        /\ LastCall.exit.ret # "crash" => dyn.live = 0

====
